---- MODULE Spec2Model ----
(***************************************************************************)
(* Model of thrustler: the Engine's event dispatcher (crates/engine), the  *)
(* winit Window wrapper (crates/winit-window) and the two backends' frame  *)
(* executors with their identity-keyed vertex buffer cache (crates/vulkan, *)
(* crates/wgpu).                                                           *)
(*                                                                         *)
(* Scenes are opaque collaborators: a scene is modelled by its current     *)
(* object list plus counters of the lifecycle hooks it has received.       *)
(* External services (winit's event loop, the GPU driver) are modelled by  *)
(* nondeterministic outcomes of the calls the code makes to them.          *)
(***************************************************************************)
EXTENDS Integers, Sequences, FiniteSets, TLC

\* ---------------------------------------------------------------- bounds
MaxScenes  == 2     \* add_scene calls before start()
MaxObjects == 2     \* length of a scene's object list
MaxDraws   == 3     \* RedrawRequested events delivered in one run

\* ------------------------------------------------------------ input sets
\* GameObject.id values (Uuid) and GameObject.vertices lengths
Ids          == {"A", "B"}
VertexCounts == {3, 6}
\* wall-clock time between two redraw events, in milliseconds
Deltas       == {40, 350}
\* EngineSettings.frames_per_second as the examples set it; 0 is the value
\* a configuration check would have to reject
FpsChoices   == {0, 10}

GameObject  == [id : Ids, vertices : VertexCounts]
ObjectLists == UNION {[1..n -> GameObject] : n \in 0..MaxObjects}
\* object lists of the scenes that never change their list: one triangle
StaticLists == {<<g>> : g \in {o \in GameObject : o.vertices = 3}}

NoEntry == [buf |-> 0, len |-> 0, used |-> FALSE]

VARIABLES
    \* --- Engine
    scenes,            \* Engine.scenes: sequence of scene records
    backend_kind,      \* EngineSettings.backend: "Vulkan" | "Wgpu"
    frames_per_second, \* EngineSettings.frames_per_second (examples)
    start_result,      \* what Engine::start returned: "none" | "Ok" | "Err"
    rerun_result,      \* what a second call of WinitWindow::run did:
                       \* "none" | "Err" | "Started"
    \* --- WindowState
    event_loop,        \* Option<EventLoop>: "Some" | "None"
    window_attrs,      \* Option<WindowAttributes>
    window,            \* Option<Arc<Window>>
    event_dispatcher,  \* Option<Box<dyn FnMut(WindowEvent)>>
    supplier_calls,    \* invocations of window_supplier
    \* --- control
    pc,                \* "created" | "running" | "exited" | "loop_error" | "panicked"
    dispatching,       \* event the dispatcher closure is handling, or "none"
    sceneIdx,          \* position of `for scene in &mut self.scenes`
    last_event,        \* the event most recently handed to the dispatcher
    last_delta,        \* time since the previous redraw, for the latest OnDraw
    draw_events,       \* RedrawRequested events delivered
    trace,             \* calls made by the dispatcher for the latest event
    \* --- Backend
    toolkit,           \* Option<Toolkit>: "None" (Uninitialized) | "Some" (Ready)
    init_result,       \* what Backend::init returned: "none" | "Ok" | "Err"
    backend_borrows,   \* live RefMut borrows of the Rc<RefCell<Backend>>
    cache,             \* subbuffer_cache / vertices_buffer_cache: id -> entry
    last_frame_fence,  \* RefCell<Option<Box<dyn GpuFuture>>>: "None" | "Now"
    uploaded_ids,      \* identities a vertex buffer was ever created for
    last_result,       \* what the latest draw_scene call that returned got
                       \* from execute_buffer
    frame              \* the execute_buffer call draw_scene is in: its input,
                       \* what it did and the result it returned

vars == <<scenes, backend_kind, frames_per_second, start_result, rerun_result,
          event_loop,
          window_attrs, window, event_dispatcher,
          supplier_calls, pc, dispatching, sceneIdx, last_event, last_delta,
          draw_events, trace, toolkit, init_result, backend_borrows, cache,
          last_frame_fence, uploaded_ids, last_result, frame>>

engineVars  == <<scenes, backend_kind, frames_per_second>>
backendVars == <<toolkit, init_result, backend_borrows, cache,
                 last_frame_fence, uploaded_ids, last_result, frame>>


\* ------------------------------------------------------------------------
\* Buffer cache (vulkano_tools.rs 552-583, wgpu_tools.rs 242-273).
\* An entry is (buffer, used flag); a buffer is a handle plus the number of
\* vertices that were uploaded into it.
\* ------------------------------------------------------------------------
CacheIds(c) == {i \in Ids : c[i] # NoEntry}

\* Faulty variant of mark_buffers_as_unused: no flag is cleared.
mark_no_buffers(c) == c

mark_buffers_as_unused(c) ==
    [i \in Ids |-> IF c[i] = NoEntry THEN NoEntry ELSE [c[i] EXCEPT !.used = FALSE]]

\* Faulty variant of delete_all_unused_buffers: every entry is removed.
delete_all_buffers(c) == [i \in Ids |-> NoEntry]

\* Faulty variant of delete_all_unused_buffers: nothing is removed.
delete_no_buffers(c) == c

delete_all_unused_buffers(c) ==
    LET dead_buffer_uuids == {i \in CacheIds(c) : ~c[i].used}
    IN  [i \in Ids |-> IF i \in dead_buffer_uuids THEN NoEntry ELSE c[i]]

\* Buffer::from_iter / create_buffer_init: a new buffer holding the object's
\* vertices.  The allocator hands out the lowest handle no live buffer of the
\* cache `c` has.
Handles == 1..(Cardinality(Ids) + 1)

create_vertex_buffer(c, game_object) ==
    [buf |-> CHOOSE h \in Handles :
                 /\ \A i \in Ids : c[i].buf # h
                 /\ \A g \in Handles : (\A i \in Ids : c[i].buf # g) => h <= g,
     len |-> game_object.vertices]

\* Faulty variant of cache_hit: the lookup creates a buffer although the
\* identity has an entry.
cache_hit_creates_buffer(c, id) ==
    [ok |-> TRUE, uploaded |-> TRUE,
     cache |-> [c EXCEPT ![id] =
                   [buf |-> create_vertex_buffer(
                                c, [id |-> id, vertices |-> c[id].len]).buf,
                    len |-> c[id].len, used |-> TRUE]],
     buf |-> create_vertex_buffer(c, [id |-> id, vertices |-> c[id].len]).buf,
     len |-> c[id].len]

\* Faulty variant of cache_hit: the entry's used flag is not set.
cache_hit_leaves_unused(c, id) ==
    [ok |-> TRUE, uploaded |-> FALSE, cache |-> c,
     buf |-> c[id].buf, len |-> c[id].len]

\* the result of a lookup that found the identity in the cache
cache_hit(c, id) ==
    [ok |-> TRUE, uploaded |-> FALSE, cache |-> [c EXCEPT ![id].used = TRUE],
     buf |-> c[id].buf, len |-> c[id].len]

\* the result of a lookup that inserted the new buffer `vertices` as (buffer, true)
cache_insert(c, id, vertices) ==
    [ok |-> TRUE, uploaded |-> TRUE,
     cache |-> [c EXCEPT ![id] = [buf |-> vertices.buf, len |-> vertices.len,
                                  used |-> TRUE]],
     buf |-> vertices.buf, len |-> vertices.len]

\* Faulty variant of get_subbuffer_for_game_object: an entry whose buffer
\* holds another number of vertices than the object is replaced.
get_subbuffer_compares_vertices(c, game_object, alloc_ok) ==
    IF c[game_object.id] # NoEntry /\ c[game_object.id].len = game_object.vertices
    THEN cache_hit(c, game_object.id)
    ELSE IF ~alloc_ok
    THEN [ok |-> FALSE, uploaded |-> FALSE, cache |-> c, buf |-> 0, len |-> 0]
    ELSE cache_insert(c, game_object.id, create_vertex_buffer(c, game_object))

\* Vulkan lookup; alloc_ok is the outcome of the allocation, were one needed.
get_subbuffer_for_game_object(c, game_object, alloc_ok) ==
    IF c[game_object.id] # NoEntry THEN cache_hit(c, game_object.id)
    ELSE IF ~alloc_ok
    THEN [ok |-> FALSE, uploaded |-> FALSE, cache |-> c, buf |-> 0, len |-> 0]
    ELSE cache_insert(c, game_object.id, create_vertex_buffer(c, game_object))

\* wgpu lookup; buffer creation cannot fail.
get_buffer_slice_for_game_object(c, game_object) ==
    IF c[game_object.id] # NoEntry THEN cache_hit(c, game_object.id)
    ELSE cache_insert(c, game_object.id, create_vertex_buffer(c, game_object))

\* ------------------------------------------------------------------------
\* Recording.  A recording state carries the cache, the lookups made (the
\* object handed to the cache and whether a buffer came back), the
\* identities uploaded and the draws bound so far.  `fail` names the step of the recording the
\* driver rejects: [kind |-> "none"], or a kind with the object index `at`.
\* ------------------------------------------------------------------------
RecFails ==
    {[kind |-> k, at |-> 0] : k \in {"none", "begin", "end"}}
    \cup {[kind |-> k, at |-> i] : k \in {"upload", "draw"}, i \in 1..MaxObjects}

NoFail == [kind |-> "none", at |-> 0]

RecStart(c) ==
    [ok |-> TRUE, swept |-> FALSE, cache |-> c, lookups |-> <<>>,
     uploaded |-> <<>>, bound |-> <<>>]

\* the lookup of game_object that returned `got`
Lookup(game_object, got) ==
    [id |-> game_object.id, vertices |-> game_object.vertices, ok |-> got.ok]

\* one object of the Vulkan loop after its lookup `got`: bind_vertex_buffers
\* and draw(vertices.len() as u32, 1, 0, 0); a `?` ends the recording
vk_bind_and_draw(st, game_object, got, draw_ok) ==
    IF ~got.ok
    THEN [st EXCEPT !.ok = FALSE,
                    !.lookups = Append(@, Lookup(game_object, got))]
    ELSE [st EXCEPT
             !.ok = draw_ok,
             !.cache = got.cache,
             !.lookups = Append(@, Lookup(game_object, got)),
             !.uploaded = IF got.uploaded THEN Append(@, game_object.id) ELSE @,
             !.bound = IF draw_ok
                       THEN Append(@, [id |-> game_object.id, buf |-> got.buf,
                                       vertices_count |-> got.len])
                       ELSE @]

vk_record_object(st, game_object, i, fail) ==
    IF ~st.ok THEN st
    ELSE vk_bind_and_draw(st, game_object,
             get_subbuffer_for_game_object(st.cache, game_object,
                 ~(fail.kind = "upload" /\ fail.at = i)),
             ~(fail.kind = "draw" /\ fail.at = i))

\* the `for game_object in game_objects` loop of the Vulkan fill_render_pass;
\* loop[i] is the recording after the first i objects
vk_record_objects(st0, game_objects, fail) ==
    LET loop[i \in 0..Len(game_objects)] ==
            IF i = 0 THEN st0
            ELSE vk_record_object(loop[i - 1], game_objects[i], i, fail)
    IN  loop[Len(game_objects)]

\* delete_all_unused_buffers and end_render_pass, reached when no `?` returned
vk_end_render_pass(st, fail) ==
    IF ~st.ok THEN st
    ELSE [st EXCEPT !.cache = delete_all_unused_buffers(st.cache),
                    !.swept = TRUE,
                    !.ok = fail.kind # "end"]

vk_fill_render_pass(c, game_objects, fail) ==
    IF fail.kind = "begin" THEN [RecStart(c) EXCEPT !.ok = FALSE]
    ELSE vk_end_render_pass(
             vk_record_objects(RecStart(mark_buffers_as_unused(c)),
                               game_objects, fail),
             fail)

\* RecordingCommandBuffer::new fails like begin_render_pass does, before the
\* cache is touched ("begin"); end() fails like end_render_pass, after the
\* sweep ("end")
create_command_buffer(c, game_objects, fail) ==
    vk_fill_render_pass(c, game_objects, fail)

\* one object of the wgpu loop after its lookup `got`: set_vertex_buffer and
\* draw(0..3, 0..1)
wgpu_bind_and_draw(st, game_object, got) ==
    [st EXCEPT !.cache = got.cache,
               !.lookups = Append(@, Lookup(game_object, got)),
               !.uploaded = IF got.uploaded THEN Append(@, game_object.id) ELSE @,
               !.bound = Append(@, [id |-> game_object.id, buf |-> got.buf,
                                    vertices_count |-> 3])]

\* the `for object in objects` loop of the wgpu fill_render_pass
wgpu_record_objects(st0, game_objects) ==
    LET loop[i \in 0..Len(game_objects)] ==
            IF i = 0 THEN st0
            ELSE wgpu_bind_and_draw(loop[i - 1], game_objects[i],
                     get_buffer_slice_for_game_object(loop[i - 1].cache,
                                                      game_objects[i]))
    IN  loop[Len(game_objects)]

wgpu_end_render_pass(st) ==
    [st EXCEPT !.cache = delete_all_unused_buffers(st.cache), !.swept = TRUE]

wgpu_fill_render_pass(c, game_objects) ==
    wgpu_end_render_pass(
        wgpu_record_objects(RecStart(mark_buffers_as_unused(c)), game_objects))

\* ------------------------------------------------------------------------
\* Frame submission.  `o` is what the surface, the driver and the queue
\* answer during one call: o.acquire, o.fail (recording), o.submit, o.present.
\* The result record carries the returned BufferExecutorResult ("Panic" when
\* the call unwinds instead of returning), the step that decided it, the new
\* cache and fence slot, and what the call did on the GPU.
\* ------------------------------------------------------------------------
VulkanOutcomes ==
    {[acquire |-> a, fail |-> NoFail, submit |-> "Ok", present |-> "Ok"] :
        a \in {"Suboptimal", "OutOfDate", "Err"}}
    \cup {[acquire |-> "Ok", fail |-> f, submit |-> "Ok", present |-> "Ok"] :
        f \in RecFails}
    \cup {[acquire |-> "Ok", fail |-> NoFail, submit |-> "Err", present |-> "Ok"]}
    \cup {[acquire |-> "Ok", fail |-> NoFail, submit |-> "Ok", present |-> p] :
        p \in {"OutOfDate", "Err"}}

WgpuOutcomes ==
    {[acquire |-> a, fail |-> NoFail, submit |-> "Ok", present |-> "Ok"] :
        a \in {"Ok", "Suboptimal", "OutOfDate", "Err"}}

Outcomes(kind) == IF kind = "Vulkan" THEN VulkanOutcomes ELSE WgpuOutcomes

Submission(result, stage, o, c, fence, rec, submitted, presented) ==
    [result |-> result, stage |-> stage, cache |-> c, fence |-> fence,
     acquire |-> o.acquire,
     present |-> IF stage = "present" THEN o.present ELSE "none",
     lookups |-> rec.lookups,
     uploaded |-> rec.uploaded, bound |-> rec.bound, recorded |-> rec.swept,
     submitted |-> submitted, presented |-> presented]

\* Faulty variant of vk_submit_and_present: the fence is taken before the
\* result of the recording is looked at.
vk_submit_takes_fence_first(rec, fence, o) ==
    IF ~rec.ok
    THEN Submission("Fail", "record", o, rec.cache, "None", rec, FALSE, FALSE)
    ELSE IF o.submit = "Err"
    THEN Submission("Fail", "submit", o, rec.cache, "None", rec, FALSE, FALSE)
    ELSE IF o.present = "Ok"
    THEN Submission("Done", "present", o, rec.cache, "Now", rec, TRUE, TRUE)
    ELSE IF o.present = "OutOfDate"
    THEN Submission("Panic", "present", o, rec.cache, "None", rec, TRUE, FALSE)
    ELSE Submission("Fail", "present", o, rec.cache, "None", rec, TRUE, FALSE)

\* execute_buffer after create_command_buffer returned `rec`: join with the
\* previous frame's future, then_execute, then_swapchain_present,
\* then_signal_fence_and_flush
vk_submit_and_present(rec, fence, o) ==
    IF ~rec.ok
    THEN Submission("Fail", "record", o, rec.cache, fence, rec, FALSE, FALSE)
    \* last_frame_fence.take(): the slot is empty from here on
    ELSE IF o.submit = "Err"
    THEN Submission("Fail", "submit", o, rec.cache, "None", rec, FALSE, FALSE)
    ELSE IF o.present = "Ok"
    THEN Submission("Done", "present", o, rec.cache, "Now", rec, TRUE, TRUE)
    ELSE IF o.present = "OutOfDate"
    \* as_mut().unwrap() on the slot emptied by take()
    THEN Submission("Panic", "present", o, rec.cache, "None", rec, TRUE, FALSE)
    ELSE Submission("Fail", "present", o, rec.cache, "None", rec, TRUE, FALSE)

\* CommandBufferExecutor::execute_buffer
vk_execute_buffer(c, fence, game_objects, o) ==
    IF o.acquire \in {"OutOfDate", "Err"}
    THEN Submission("Fail", "acquire", o, c, fence, RecStart(c), FALSE, FALSE)
    ELSE IF o.acquire = "Suboptimal"
    THEN Submission(IF fence = "None" THEN "Panic" ELSE "Recreate",
                    "acquire", o, c, fence, RecStart(c), FALSE, FALSE)
    ELSE vk_submit_and_present(create_command_buffer(c, game_objects, o.fail),
                               fence, o)

\* execute_buffer after fill_render_pass returned `rec`: queue.submit and
\* surface_texture.present()
wgpu_submit_and_present(rec, fence, o) ==
    Submission("Done", "present", o, rec.cache, fence, rec, TRUE, TRUE)

\* wgpu execute_buffer; Ok(()) is reported as "Done", Err as "Fail"
wgpu_execute_buffer(c, fence, game_objects, o) ==
    IF o.acquire \in {"OutOfDate", "Err"}
    THEN Submission("Fail", "acquire", o, c, fence, RecStart(c), FALSE, FALSE)
    ELSE wgpu_submit_and_present(wgpu_fill_render_pass(c, game_objects),
                                 fence, o)

execute_buffer(kind, c, fence, game_objects, o) ==
    IF kind = "Vulkan"
    THEN vk_execute_buffer(c, fence, game_objects, o)
    ELSE wgpu_execute_buffer(c, fence, game_objects, o)

NoFrame ==
    [result |-> "none", stage |-> "none", acquire |-> "none", present |-> "none",
     lookups |-> <<>>, uploaded |-> <<>>, bound |-> <<>>, recorded |-> FALSE,
     submitted |-> FALSE, presented |-> FALSE]

EmptyCache == [i \in Ids |-> NoEntry]

\* ------------------------------------------------------------------------
\* Engine and Window
\* ------------------------------------------------------------------------
\* A scene either keeps the object list it was built with (examples/
\* wgpu_test.rs) or leaves a new list at every on_update (examples/
\* sierpinski_triangles.rs); for the latter the list is what
\* get_scene_objects returns at the draw.
\* started, updated and destroyed count the hooks the scene has received.
NewScene(regenerates, game_objects) ==
    [regenerates |-> regenerates, game_objects |-> game_objects,
     started |-> 0, updated |-> 0, destroyed |-> 0]

Init ==
    /\ scenes = <<>>
    /\ backend_kind \in {"Vulkan", "Wgpu"}
    /\ frames_per_second \in FpsChoices
    /\ start_result = "none"
    /\ rerun_result = "none"
    /\ event_loop = "Some"
    /\ window_attrs = "Some"
    /\ window = "None"
    /\ event_dispatcher = "None"
    /\ supplier_calls = 0
    /\ pc = "created"
    /\ dispatching = "none"
    /\ sceneIdx = 0
    /\ last_event = "none"
    /\ last_delta = 0
    /\ draw_events = 0
    /\ trace = <<>>
    /\ toolkit = "None"
    /\ init_result = "none"
    /\ backend_borrows = 0
    /\ cache = EmptyCache
    /\ last_frame_fence = "None"
    /\ uploaded_ids = {}
    /\ last_result = "none"
    /\ frame = NoFrame

\* Engine::add_scene
AddScene(regenerates, game_objects) ==
    /\ pc = "created"
    /\ Len(scenes) < MaxScenes
    /\ scenes' = Append(scenes, NewScene(regenerates, game_objects))
    /\ UNCHANGED <<backend_kind, frames_per_second, start_result, rerun_result,
                   event_loop,
                   window_attrs, window, event_dispatcher,
                   supplier_calls, pc, dispatching, sceneIdx, last_event,
                   last_delta, draw_events, trace>>
    /\ UNCHANGED backendVars

\* Engine::start -> WinitWindow::run up to the entry of run_app
Start ==
    /\ pc = "created"
    /\ event_loop = "Some"
    /\ event_loop' = "None"
    /\ event_dispatcher' = "Some"
    /\ pc' = "running"
    /\ UNCHANGED <<start_result, rerun_result,
                   window_attrs, window,
                   supplier_calls, dispatching, sceneIdx, last_event,
                   last_delta, draw_events, trace>>
    /\ UNCHANGED engineVars
    /\ UNCHANGED backendVars

\* Faulty variant of LoopError: the error of run_app is swallowed.
LoopError_returns_ok ==
    /\ pc = "running"
    /\ dispatching = "none"
    /\ pc' = "loop_error"
    /\ start_result' = "Ok"
    /\ UNCHANGED rerun_result
    /\ UNCHANGED <<event_loop, window_attrs, window, event_dispatcher,
                   supplier_calls, dispatching, sceneIdx,
                   last_event, last_delta, draw_events, trace>>
    /\ UNCHANGED engineVars
    /\ UNCHANGED backendVars

\* run_app returns an error: Engine::start returns it
LoopError ==
    /\ pc = "running"
    /\ dispatching = "none"
    /\ pc' = "loop_error"
    /\ start_result' = "Err"
    /\ UNCHANGED rerun_result
    /\ UNCHANGED <<event_loop, window_attrs, window, event_dispatcher,
                   supplier_calls, dispatching, sceneIdx,
                   last_event, last_delta, draw_events, trace>>
    /\ UNCHANGED engineVars
    /\ UNCHANGED backendVars

\* Faulty variant of RunAgain: the call registers its dispatcher and runs a
\* loop without looking at the event_loop slot.
RunAgain_restarts ==
    /\ pc \in {"exited", "loop_error"}
    /\ rerun_result = "none"
    /\ rerun_result' = "Started"
    /\ event_dispatcher' = "Replaced"
    /\ pc' = "running"
    /\ UNCHANGED <<start_result, event_loop, window_attrs, window,
                   supplier_calls, dispatching, sceneIdx, last_event,
                   last_delta, draw_events, trace>>
    /\ UNCHANGED engineVars
    /\ UNCHANGED backendVars

\* WinitWindow::run called again on the window after the first call has
\* returned: event_loop.take().ok_or(WindowLoopError)? comes before the
\* dispatcher is replaced and before run_app
RunAgain ==
    /\ pc \in {"exited", "loop_error"}
    /\ rerun_result = "none"
    /\ IF event_loop = "None"
       THEN /\ rerun_result' = "Err"
            /\ UNCHANGED <<event_loop, event_dispatcher, pc>>
       ELSE /\ rerun_result' = "Started"
            /\ event_loop' = "None"
            /\ event_dispatcher' = "Replaced"
            /\ pc' = "running"
    /\ UNCHANGED <<start_result, window_attrs, window,
                   supplier_calls, dispatching, sceneIdx, last_event,
                   last_delta, draw_events, trace>>
    /\ UNCHANGED engineVars
    /\ UNCHANGED backendVars

\* WindowState::dispatch_event: hand `event` to the registered dispatcher
dispatch_event(event) ==
    IF event_dispatcher # "None"
    THEN /\ dispatching' = event
         /\ sceneIdx' = 1
         /\ last_event' = event
         /\ trace' = <<>>
         /\ pc' = pc
    ELSE /\ pc' = "panicked"
         /\ UNCHANGED <<dispatching, sceneIdx, last_event, trace>>

\* RefCell::borrow_mut on the backend cell when `borrows` borrows of it are
\* live: a RefMut, or the BorrowMutError panic
borrow_mut(borrows) ==
    IF borrows = 0
    THEN [ok |-> TRUE, borrows |-> 1]
    ELSE [ok |-> FALSE, borrows |-> borrows]

\* the fallible steps of Backend::init, in the order the code takes them
\* (wgpu: create_surface, adapter, request_device, surface format; Vulkan:
\* create_vulkano_toolkit)
InitSteps == <<"surface", "adapter", "device", "format">>

\* the step of init that fails, or "none"
InitFailures == {"none"} \cup {InitSteps[k] : k \in DOMAIN InitSteps}

\* Faulty variant of init: the toolkit is stored as soon as the device exists.
init_stores_partial_toolkit(tk, failed_step) ==
    [result  |-> IF failed_step = "none" THEN "Ok" ELSE "Err",
     toolkit |-> IF failed_step \in {"none", "format"} THEN "Some" ELSE tk]

\* Backend::init on a backend whose toolkit slot holds tk: every step is
\* followed by `?`, and the toolkit is stored after the last one
init(tk, failed_step) ==
    IF failed_step = "none"
    THEN [result |-> "Ok", toolkit |-> "Some"]
    ELSE [result |-> "Err", toolkit |-> tk]

\* the initializer closure of Engine::new_with_settings -> Backend::init;
\* the Result of init is dropped by the closure's caller
initializer(failed_step) ==
    \E r \in {init(toolkit, failed_step)} :
        /\ toolkit' = r.toolkit
        /\ init_result' = r.result
        /\ IF r.result = "Ok"
           THEN /\ cache' = EmptyCache
                /\ last_frame_fence' =
                       IF backend_kind = "Vulkan" THEN "Now" ELSE "None"
           ELSE UNCHANGED <<cache, last_frame_fence>>

\* Faulty variant of window_supplier: the callback is not invoked.
window_supplier_not_called(failed_step) ==
    UNCHANGED <<supplier_calls, toolkit, init_result, cache, last_frame_fence>>

\* (self.window_supplier)(rc_window): the closure WinitWindow::new built
\* around the Engine's initializer
window_supplier(failed_step) ==
    /\ supplier_calls' = supplier_calls + 1
    /\ initializer(failed_step)

\* ApplicationHandler::resumed up to the dispatch of OnStart
Resumed(create_ok, failed_step) ==
    /\ pc = "running"
    /\ dispatching = "none"
    /\ IF window_attrs = "None" \/ ~create_ok
       THEN /\ pc' = "panicked"
            /\ window_attrs' = "None"
            /\ UNCHANGED <<supplier_calls, dispatching, sceneIdx, last_event,
                           trace, toolkit, init_result, cache, last_frame_fence>>
       ELSE IF ~borrow_mut(backend_borrows).ok
       \* rc_backend.borrow_mut() in the initializer panics: the supplier was
       \* called and did not return
       THEN /\ pc' = "panicked"
            /\ window_attrs' = "None"
            /\ supplier_calls' = supplier_calls + 1
            /\ UNCHANGED <<dispatching, sceneIdx, last_event,
                           trace, toolkit, init_result, cache, last_frame_fence>>
       \* the RefMut of the initializer is dropped when init returns
       ELSE /\ window_attrs' = "None"
            /\ window_supplier(failed_step)
            /\ dispatch_event("OnStart")
    /\ UNCHANGED <<start_result, rerun_result,
                   event_loop, window, event_dispatcher,
                   last_delta, draw_events, uploaded_ids, last_result,
                   frame, backend_borrows>>
    /\ UNCHANGED engineVars

\* window_event(RedrawRequested): delivered once the window exists; `delta`
\* is the time that has passed since the previous redraw
RedrawRequested(delta) ==
    /\ pc = "running"
    /\ dispatching = "none"
    /\ window = "Some"
    /\ draw_events < MaxDraws
    /\ draw_events' = draw_events + 1
    /\ last_delta' = delta
    /\ dispatch_event("OnDraw")
    /\ UNCHANGED <<start_result, rerun_result,
                   event_loop, window_attrs, window,
                   event_dispatcher, supplier_calls>>
    /\ UNCHANGED engineVars
    /\ UNCHANGED backendVars

\* window_event(CloseRequested) up to the dispatch of OnStop
CloseRequested ==
    /\ pc = "running"
    /\ dispatching = "none"
    /\ window = "Some"
    /\ dispatch_event("OnStop")
    /\ UNCHANGED <<start_result, rerun_result,
                   event_loop, window_attrs, window,
                   event_dispatcher, supplier_calls,
                   last_delta, draw_events>>
    /\ UNCHANGED engineVars
    /\ UNCHANGED backendVars

\* --- the dispatcher closure of Engine::start, one scene of its loop per step
InDispatch(event) ==
    /\ pc = "running"
    /\ dispatching = event
    /\ sceneIdx \in 1..Len(scenes)
    /\ frame = NoFrame

\* WindowEvent::OnStart => scene.on_start()
DispatchOnStart ==
    /\ InDispatch("OnStart")
    /\ scenes' = [scenes EXCEPT ![sceneIdx].started = @ + 1]
    /\ trace' = Append(trace, <<"on_start", sceneIdx>>)
    /\ sceneIdx' = sceneIdx + 1
    /\ UNCHANGED <<backend_kind, frames_per_second, start_result, rerun_result,
                   event_loop,
                   window_attrs, window, event_dispatcher,
                   supplier_calls, pc, dispatching, last_event, last_delta,
                   draw_events>>
    /\ UNCHANGED backendVars

\* Faulty variant of DispatchOnStop: the loop steps over the next scene.
DispatchOnStop_skips_next ==
    /\ InDispatch("OnStop")
    /\ scenes' = [scenes EXCEPT ![sceneIdx].destroyed = @ + 1]
    /\ trace' = Append(trace, <<"on_destroy", sceneIdx>>)
    /\ sceneIdx' = sceneIdx + 2
    /\ UNCHANGED <<backend_kind, frames_per_second, start_result, rerun_result,
                   event_loop,
                   window_attrs, window, event_dispatcher,
                   supplier_calls, pc, dispatching, last_event, last_delta,
                   draw_events>>
    /\ UNCHANGED backendVars

\* WindowEvent::OnStop => scene.on_destroy()
DispatchOnStop ==
    /\ InDispatch("OnStop")
    /\ scenes' = [scenes EXCEPT ![sceneIdx].destroyed = @ + 1]
    /\ trace' = Append(trace, <<"on_destroy", sceneIdx>>)
    /\ sceneIdx' = sceneIdx + 1
    /\ UNCHANGED <<backend_kind, frames_per_second, start_result, rerun_result,
                   event_loop,
                   window_attrs, window, event_dispatcher,
                   supplier_calls, pc, dispatching, last_event, last_delta,
                   draw_events>>
    /\ UNCHANGED backendVars

\* Faulty variant of draw_scene: the toolkit is used without the unwrap.
draw_scene_without_unwrap(game_objects, o) ==
    execute_buffer(backend_kind, cache, last_frame_fence, game_objects, o)

\* Backend::draw_scene up to the return of execute_buffer:
\* get_toolkit().unwrap(), then execute_buffer on the scene's objects
draw_scene(game_objects, o) ==
    IF toolkit = "None"
    THEN [Submission("Panic", "get_toolkit", o, cache, last_frame_fence,
                     RecStart(cache), FALSE, FALSE)
             EXCEPT !.acquire = "none"]
    ELSE execute_buffer(backend_kind, cache, last_frame_fence, game_objects, o)

\* back_clone.clone().borrow_mut().draw_scene(scene): the call is made on
\* the RefMut, which lives until draw_scene has returned
borrowed_draw_scene(game_objects, o) ==
    IF ~borrow_mut(backend_borrows).ok
    THEN [Submission("Panic", "borrow_mut", o, cache, last_frame_fence,
                     RecStart(cache), FALSE, FALSE)
             EXCEPT !.acquire = "none"]
    ELSE draw_scene(game_objects, o)

\* the object lists on_update can leave the scene
on_update(scene) ==
    IF scene.regenerates THEN ObjectLists ELSE {scene.game_objects}

\* Faulty variant of update_then_draw: the scene is drawn before its update.
draw_then_update(i) == <<<<"draw_scene", i>>, <<"on_update", i>>>>

\* the calls of the OnDraw arm for scene i, in the order of its statements
update_then_draw(i) == <<<<"on_update", i>>, <<"draw_scene", i>>>>

\* WindowEvent::OnDraw => scene.on_update(); backend.draw_scene(scene)
DispatchOnDraw(game_objects, o) ==
    /\ InDispatch("OnDraw")
    /\ game_objects \in on_update(scenes[sceneIdx])
    /\ o.fail.at <= Len(game_objects)
    /\ scenes' = [scenes EXCEPT ![sceneIdx].updated = @ + 1]
    /\ \E r \in {borrowed_draw_scene(game_objects, o)} :
           \* a panic unwinds the dispatcher and drops the RefMut
           /\ backend_borrows' = IF r.result = "Panic" THEN 0 ELSE 1
           /\ cache' = r.cache
           /\ uploaded_ids' = uploaded_ids \cup {r.uploaded[k] : k \in DOMAIN r.uploaded}
           /\ last_frame_fence' = r.fence
           /\ frame' = [result |-> r.result, stage |-> r.stage,
                        acquire |-> r.acquire, present |-> r.present,
                        uploaded |-> r.uploaded, bound |-> r.bound,
                        lookups |-> r.lookups,
                        recorded |-> r.recorded, submitted |-> r.submitted,
                        presented |-> r.presented]
           /\ pc' = IF r.result = "Panic" THEN "panicked" ELSE pc
    /\ trace' = trace \o update_then_draw(sceneIdx)
    /\ UNCHANGED <<backend_kind, frames_per_second, start_result, rerun_result,
                   event_loop,
                   window_attrs, window, event_dispatcher, supplier_calls,
                   dispatching, sceneIdx, last_event, last_delta, draw_events,
                   toolkit, init_result, last_result>>

\* Faulty variant of DrawSceneReturn: a Recreate result ends the run.
DrawSceneReturn_stops_on_recreate ==
    /\ pc = "running"
    /\ dispatching = "OnDraw"
    /\ frame # NoFrame
    /\ frame' = NoFrame
    /\ sceneIdx' = sceneIdx + 1
    /\ last_result' = frame.result
    /\ pc' = IF frame.result = "Recreate" THEN "exited" ELSE pc
    /\ UNCHANGED <<start_result, rerun_result,
                   event_loop, window_attrs, window,
                   event_dispatcher, supplier_calls, dispatching,
                   last_event, last_delta, draw_events, trace>>
    /\ UNCHANGED engineVars
    /\ backend_borrows' = 0
    /\ UNCHANGED <<toolkit, init_result, cache, last_frame_fence, uploaded_ids>>

\* Faulty variant of DrawSceneReturn: the RefMut of the call is kept alive.
DrawSceneReturn_keeps_borrow ==
    /\ pc = "running"
    /\ dispatching = "OnDraw"
    /\ frame # NoFrame
    /\ frame' = NoFrame
    /\ sceneIdx' = sceneIdx + 1
    /\ last_result' = frame.result
    /\ UNCHANGED <<start_result, rerun_result,
                   event_loop, window_attrs, window,
                   event_dispatcher, supplier_calls, pc, dispatching,
                   last_event, last_delta, draw_events, trace>>
    /\ UNCHANGED engineVars
    /\ UNCHANGED <<toolkit, init_result, backend_borrows, cache,
                   last_frame_fence, uploaded_ids>>

\* draw_scene returns: the BufferExecutorResult is dropped and the loop of
\* the dispatcher goes on with the next scene
DrawSceneReturn ==
    /\ pc = "running"
    /\ dispatching = "OnDraw"
    /\ frame # NoFrame
    /\ frame' = NoFrame
    /\ sceneIdx' = sceneIdx + 1
    /\ UNCHANGED <<start_result, rerun_result,
                   event_loop, window_attrs, window,
                   event_dispatcher, supplier_calls, pc, dispatching,
                   last_event, last_delta, draw_events, trace>>
    /\ UNCHANGED engineVars
    /\ last_result' = frame.result
    /\ backend_borrows' = 0
    /\ UNCHANGED <<toolkit, init_result, cache, last_frame_fence, uploaded_ids>>

DispatcherReturned(event) ==
    /\ pc = "running"
    /\ dispatching = event
    /\ sceneIdx > Len(scenes)

\* resumed after dispatch_event(OnStart): self.window = Some(rc_window)
ResumedReturn ==
    /\ DispatcherReturned("OnStart")
    /\ window' = "Some"
    /\ dispatching' = "none"
    /\ UNCHANGED <<start_result, rerun_result,
                   event_loop, window_attrs, event_dispatcher,
                   supplier_calls, pc, sceneIdx, last_event,
                   last_delta, draw_events, trace>>
    /\ UNCHANGED engineVars
    /\ UNCHANGED backendVars

\* window_event(RedrawRequested) after dispatch_event(OnDraw)
RedrawReturn ==
    /\ DispatcherReturned("OnDraw")
    /\ dispatching' = "none"
    /\ UNCHANGED <<start_result, rerun_result,
                   event_loop, window_attrs, window,
                   event_dispatcher, supplier_calls, pc,
                   sceneIdx, last_event, last_delta, draw_events, trace>>
    /\ UNCHANGED engineVars
    /\ UNCHANGED backendVars

\* Faulty variant of CloseReturn: event_loop.exit() is not called.
CloseReturn_without_exit ==
    /\ DispatcherReturned("OnStop")
    /\ dispatching' = "none"
    /\ UNCHANGED <<start_result, rerun_result,
                   event_loop, window_attrs, window,
                   event_dispatcher, supplier_calls, pc, sceneIdx, last_event,
                   last_delta, draw_events, trace>>
    /\ UNCHANGED engineVars
    /\ UNCHANGED backendVars

\* window_event(CloseRequested) after dispatch_event(OnStop):
\* event_loop.exit(); run_app returns once this handler has returned, and
\* with it Engine::start returns Ok
CloseReturn ==
    /\ DispatcherReturned("OnStop")
    /\ dispatching' = "none"
    /\ pc' = "exited"
    /\ start_result' = "Ok"
    /\ UNCHANGED rerun_result
    /\ UNCHANGED <<event_loop, window_attrs, window, event_dispatcher,
                   supplier_calls, sceneIdx, last_event,
                   last_delta, draw_events, trace>>
    /\ UNCHANGED engineVars
    /\ UNCHANGED backendVars

\* the events the event loop delivers to a started Engine and the steps of
\* their handlers
Run ==
    \/ Start
    \/ LoopError
    \/ RunAgain
    \/ \E create_ok \in BOOLEAN, failed_step \in InitFailures :
           Resumed(create_ok, failed_step)
    \/ \E delta \in Deltas : RedrawRequested(delta)
    \/ CloseRequested
    \/ DispatchOnStart
    \/ \E game_objects \in ObjectLists, o \in Outcomes(backend_kind) :
           DispatchOnDraw(game_objects, o)
    \/ DrawSceneReturn
    \/ DispatchOnStop
    \/ ResumedReturn
    \/ RedrawReturn
    \/ CloseReturn

\* add_scene with a scene that keeps its list
AddStaticScene == \E game_objects \in StaticLists : AddScene(FALSE, game_objects)

\* add_scene with a scene that regenerates its list
AddRegeneratingScene == AddScene(TRUE, <<>>)

\* add_scene with a regenerating scene, as the only scene of the Engine
AddOnlyScene == scenes = <<>> /\ AddScene(TRUE, <<>>)

Next == AddStaticScene \/ AddRegeneratingScene \/ Run

\* Engines with up to MaxScenes scenes of either kind
Spec == Init /\ [][Next]_vars

\* Engines all of whose scenes keep their object list
SpecStatic == Init /\ [][AddStaticScene \/ Run]_vars

\* Engines with at most one scene, which regenerates its object list
SpecOneScene == Init /\ [][AddOnlyScene \/ Run]_vars

\* ------------------------------------------------------------------------
\* Properties
\* ------------------------------------------------------------------------
\* occurrences of x in the sequence seq
Count(seq, x) == Cardinality({k \in DOMAIN seq : seq[k] = x})

\* identities bound by the draws of a frame
BoundIds(f) == {f.bound[k].id : k \in DOMAIN f.bound}

\* the step is a draw_scene call: execute_buffer runs and leaves `frame`
DrawStep == frame = NoFrame /\ frame' # NoFrame

C2_CatchUp ==
    (DispatcherReturned("OnDraw") /\ last_delta * frames_per_second >= 1000) =>
        \A i \in DOMAIN scenes :
            /\ Count(trace, <<"on_update", i>>) =
                   (last_delta * frames_per_second) \div 1000
            /\ Count(trace, <<"draw_scene", i>>) =
                   (last_delta * frames_per_second) \div 1000

\* C3: scheduler starvation.  When the handling of a Draw event that came
\* less than one frame period after the previous one ends, with nothing
\* banked, no scene has received an on_update call or a draw: 0 pairs for
\* 40 ms at 10 frames per second.
C3_Starvation ==
    (DispatcherReturned("OnDraw") /\ last_delta * frames_per_second < 1000) =>
        \A i \in DOMAIN scenes :
            /\ Count(trace, <<"on_update", i>>) = 0
            /\ Count(trace, <<"draw_scene", i>>) = 0

\* C4: cache reuse.  When one frame's recording binds the same identity
\* twice, both lookups return the same buffer handle, the frame uploads for
\* that identity exactly once if it had no entry when the recording began
\* (and not at all if it had one), and afterwards the cache holds one entry
\* for the identity, with that handle, which no other entry shares.
C4_CacheReuse ==
    [][DrawStep =>
        \A j, k \in DOMAIN frame'.bound :
            (j < k /\ frame'.bound[j].id = frame'.bound[k].id) =>
                /\ frame'.bound[j].buf = frame'.bound[k].buf
                /\ Count(frame'.uploaded, frame'.bound[j].id) =
                       IF cache[frame'.bound[j].id] = NoEntry THEN 1 ELSE 0
                /\ cache'[frame'.bound[j].id] # NoEntry
                /\ cache'[frame'.bound[j].id].buf = frame'.bound[j].buf
                /\ \A other \in Ids \ {frame'.bound[j].id} :
                       cache'[other].buf # frame'.bound[j].buf]_vars

\* a frame that listed one identity twice and uploaded once
C4_Witness ==
    /\ Len(frame.bound) = 2
    /\ frame.bound[1].id = frame.bound[2].id
    /\ frame.bound[1].buf = frame.bound[2].buf
    /\ frame.uploaded = <<frame.bound[1].id>>
    /\ frame.presented

\* C5: cache eviction.  At the end of a frame's recording no identity absent
\* from the frame's object list has a cache entry, whatever earlier frames
\* listed, and an identity that has no entry when a recording begins and is
\* listed in it gets a fresh upload in that frame.
C5_Eviction ==
    [][(DrawStep /\ frame'.recorded) =>
        \A id \in Ids :
            /\ id \notin BoundIds(frame') => cache'[id] = NoEntry
            /\ (id \in BoundIds(frame') /\ cache[id] = NoEntry) =>
                   Count(frame'.uploaded, id) = 1]_vars

\* the end of a recording that does not list identity A, which an earlier
\* frame uploaded: A has no entry, the listed identity B has one
C5_Witness ==
    /\ frame.recorded
    /\ "A" \in uploaded_ids
    /\ "A" \notin BoundIds(frame)
    /\ cache["A"] = NoEntry
    /\ "B" \in BoundIds(frame)
    /\ cache["B"] # NoEntry

\* the Engine holds one scene, which keeps its one-object list
SingleStaticScene == Len(scenes) = 1 /\ ~scenes[1].regenerates

\* C6: a scene whose list holds one object with the same identity at every
\* draw.  A vertex buffer is created for that identity only, by the first
\* draw whose recording reaches the object and by no later draw (one upload
\* in total), and every draw whose submission is Done has bound that one
\* buffer and made one present call, while no other draw presents.
C6_OneUploadManyPresents ==
    /\ [](SingleStaticScene =>
            /\ uploaded_ids \subseteq {scenes[1].game_objects[1].id}
            /\ Len(frame.uploaded) <= 1
            /\ frame.recorded => uploaded_ids = {scenes[1].game_objects[1].id}
            /\ frame.presented <=> frame.result = "Done"
            /\ frame.result = "Done" =>
                   /\ Len(frame.bound) = 1
                   /\ frame.bound[1].id = scenes[1].game_objects[1].id
                   /\ frame.bound[1].buf = cache[frame.bound[1].id].buf)
    /\ [][(SingleStaticScene /\ DrawStep /\ uploaded_ids # {}) =>
            /\ frame'.uploaded = <<>>
            /\ cache'[scenes[1].game_objects[1].id] =
                   [cache[scenes[1].game_objects[1].id] EXCEPT !.used = TRUE]]_vars

\* the third of three consecutive draws of such a scene: it and the draw
\* before it are Done and presented, and the buffer uploaded by an earlier
\* draw is bound without a new upload
C6_Witness ==
    /\ SingleStaticScene
    /\ draw_events = 3
    /\ scenes[1].updated = 3
    /\ last_result = "Done"
    /\ frame.result = "Done"
    /\ frame.presented
    /\ frame.uploaded = <<>>
    /\ uploaded_ids = {scenes[1].game_objects[1].id}

\* C7: a frame submission that returns Recreate does so at acquire and does
\* not end the run: the dispatcher goes on with the fence slot, the cache and
\* the toolkit untouched, and the next draw_scene call again follows an
\* on_update of its scene and attempts the acquisition.
C7_RecreateNonFatal ==
    /\ [](frame.result = "Recreate" =>
            /\ pc = "running"
            /\ frame.stage = "acquire"
            /\ ~frame.submitted
            /\ last_frame_fence # "None")
    /\ [][frame.result = "Recreate" =>
            /\ pc' = "running"
            /\ dispatching' = "OnDraw"
            /\ sceneIdx' = sceneIdx + 1
            /\ last_result' = "Recreate"
            /\ <<toolkit, cache, last_frame_fence, event_dispatcher>>' =
                   <<toolkit, cache, last_frame_fence, event_dispatcher>>]_vars
    /\ [][(last_result = "Recreate" /\ DrawStep) =>
            /\ scenes'[sceneIdx].updated = scenes[sceneIdx].updated + 1
            /\ frame'.acquire # "none"
            /\ frame'.stage # "get_toolkit"]_vars

\* the Draw event after one whose only draw returned Recreate: on_update has
\* run again and the acquisition has been attempted again
C7_Witness ==
    /\ Len(scenes) = 1
    /\ last_result = "Recreate"
    /\ draw_events >= 2
    /\ scenes[1].updated = draw_events
    /\ frame # NoFrame
    /\ frame.acquire = "Ok"
    /\ frame.result = "Done"

\* C8: the backend's draw is invoked only while the Backend is Ready, also
\* in runs where initialize fails.
C8_DrawOnlyWhenReady ==
    frame # NoFrame => toolkit = "Some"

\* C9: the Window invokes the surface-created callback at most once, and
\* the invocation has completed whenever Start has been dispatched, so
\* before any scene's on_start and before any Draw or Stop event.
C9_SurfaceCallbackOnce ==
    /\ supplier_calls <= 1
    /\ last_event # "none" => supplier_calls = 1
    /\ dispatching # "none" => supplier_calls = 1
    /\ \A i \in DOMAIN scenes :
           (scenes[i].started > 0 \/ scenes[i].updated > 0
               \/ scenes[i].destroyed > 0) => supplier_calls = 1
    /\ window = "Some" => supplier_calls = 1

\* a run through Start, Draw and Stop after exactly one callback invocation
C9_Witness ==
    /\ supplier_calls = 1
    /\ pc = "exited"
    /\ last_event = "OnStop"
    /\ draw_events >= 1
    /\ Len(scenes) >= 1
    /\ \A i \in DOMAIN scenes : scenes[i].started = 1

\* C10: every Suboptimal or out-of-date outcome of a frame, at acquire or at
\* present, makes the frame submission return Recreate: not Fail, not Done,
\* and not a panic.
C10_TransientIsRecreate ==
    (\/ frame.acquire \in {"Suboptimal", "OutOfDate"}
     \/ frame.present = "OutOfDate") => frame.result = "Recreate"

\* C11: a fatal submission error stops the loop.  Once a draw_scene call has
\* got Fail from execute_buffer, no draw_scene call (and so no on_update
\* before it) is made for any scene, and start() does not return Ok.
C11_FailStopsLoop ==
    last_result = "Fail" => (frame = NoFrame /\ start_result # "Ok")

\* C12: init moves the backend from Uninitialized (toolkit None) to Ready
\* (toolkit Some) only when every setup step succeeds; when a step fails it
\* returns Err and the toolkit slot is still None.
C12_InitAtomic ==
    /\ init_result = "Ok" <=> toolkit = "Some"
    /\ init_result = "Err" => toolkit = "None"
    /\ init_result = "none" => supplier_calls = 0

\* init has been called through the window supplier and a step failed
C12_Witness ==
    /\ init_result = "Err"
    /\ supplier_calls = 1
    /\ toolkit = "None"

\* C13: a setup error aborts startup.  Once init has returned Err through the
\* surface-created callback, no scene has received on_start or on_update and
\* start() has not returned Ok.
C13_SetupErrorAborts ==
    init_result = "Err" =>
        /\ \A i \in DOMAIN scenes :
               scenes[i].started = 0 /\ scenes[i].updated = 0
        /\ start_result # "Ok"

\* C14: when the event source of the window fails (run_app returns an
\* error), Engine::start returns that error and on_destroy has been called
\* on no scene.
C14_LoopErrorReturned ==
    /\ pc = "loop_error" => start_result = "Err"
    /\ start_result = "Err" =>
           /\ pc = "loop_error"
           /\ \A i \in DOMAIN scenes : scenes[i].destroyed = 0

\* the loop failed after two scenes had been started and updated
C14_Witness ==
    /\ start_result = "Err"
    /\ Len(scenes) = 2
    /\ \A i \in DOMAIN scenes : scenes[i].started = 1 /\ scenes[i].updated >= 1

\* C15: an Engine with frames_per_second = 0 is rejected at construction,
\* before a window or an event loop is created: no constructed Engine has
\* frames_per_second = 0, holds an event loop or window attributes, or runs.
C15_ZeroFpsRejected ==
    frames_per_second = 0 =>
        /\ event_loop = "None"
        /\ window_attrs = "None"
        /\ window = "None"
        /\ pc = "created"

\* the calls of `callback` on the first n scenes, in the order of add_scene
CallsInListOrder(callback, n) == [k \in 1..n |-> <<callback, k>>]

\* scenes the dispatcher has finished with in the handling of `event`
Visited(event) == IF dispatching = event THEN sceneIdx - 1 ELSE Len(scenes)

\* C16: on a Start event on_start is called on every scene in the order of
\* add_scene, and on a Stop event on_destroy is called on every scene in the
\* same order: the calls made for the event are those on scenes 1, 2, ... up
\* to the scene the loop has reached, each once, and all of them at its end.
C16_ListOrder ==
    /\ last_event = "OnStart" =>
           trace = CallsInListOrder("on_start", Visited("OnStart"))
    /\ last_event = "OnStop" =>
           trace = CallsInListOrder("on_destroy", Visited("OnStop"))

\* the handling of a Stop event has ended on an engine with two scenes
C16_Witness ==
    /\ last_event = "OnStop"
    /\ dispatching = "none"
    /\ Len(scenes) = 2
    /\ trace = <<<<"on_destroy", 1>>, <<"on_destroy", 2>>>>

\* scenes whose on_update and draw_scene calls have been made in the handling
\* of the current Draw event
Drawn ==
    IF dispatching = "OnDraw"
    THEN IF frame = NoFrame THEN sceneIdx - 1 ELSE sceneIdx
    ELSE Len(scenes)

\* C17: within one update step the scenes are processed in list order, and
\* for each scene on_update is called and then that same scene is drawn
\* before the on_update of the next scene: the calls made for a Draw event
\* are update(1), draw(1), update(2), draw(2), ... up to the scene reached.
C17_UpdateThenDraw ==
    last_event = "OnDraw" =>
        /\ Len(trace) = 2 * Drawn
        /\ \A i \in 1..Drawn :
               /\ trace[2 * i - 1] = <<"on_update", i>>
               /\ trace[2 * i] = <<"draw_scene", i>>

\* the second scene of two is being drawn after the first has been updated
\* and drawn
C17_Witness ==
    /\ dispatching = "OnDraw"
    /\ sceneIdx = 2
    /\ frame # NoFrame
    /\ trace = <<<<"on_update", 1>>, <<"draw_scene", 1>>,
                 <<"on_update", 2>>, <<"draw_scene", 2>>>>

\* C18: draw_scene on a backend that is Uninitialized (toolkit None) panics
\* in get_toolkit: the call does not return, and it acquires no image,
\* uploads no buffer, submits nothing and presents nothing.
C18_DrawUninitializedPanics ==
    toolkit = "None" =>
        /\ last_result = "none"
        /\ uploaded_ids = {}
        /\ cache = EmptyCache
        /\ frame # NoFrame =>
               /\ frame.result = "Panic"
               /\ frame.stage = "get_toolkit"
               /\ pc = "panicked"
               /\ frame.acquire = "none"
               /\ frame.uploaded = <<>>
               /\ ~frame.recorded
               /\ ~frame.submitted
               /\ ~frame.presented

\* draw_scene has been called for a scene with an object after init failed
C18_Witness ==
    /\ toolkit = "None"
    /\ init_result = "Err"
    /\ frame.result = "Panic"
    /\ dispatching = "OnDraw"
    /\ scenes[sceneIdx].game_objects # <<>>

\* C19: accumulator invariant.  The banked time is 0 at construction, so when
\* the handling of the first Draw event ends, the time of that event which
\* the update steps made for it have not consumed (last_delta minus one frame
\* period per on_update call on a scene) is at least 0 and less than one
\* frame period.
C19_AccumulatorBounded ==
    (/\ DispatcherReturned("OnDraw")
     /\ draw_events = 1
     /\ frames_per_second > 0
     /\ scenes # <<>>) =>
        \E period \in {1000 \div frames_per_second} :
            \E banked \in {last_delta - period * Count(trace, <<"on_update", 1>>)} :
                0 <= banked /\ banked < period

\* C20: after every completed recording of a frame the identities in the
\* cache are exactly the identities of the frame's object list, and every
\* entry has its used flag set: one buffer per identity the frame visited
\* and none for the others.
C20_CacheIsFrameSet ==
    frame.recorded =>
        /\ CacheIds(cache) = BoundIds(frame)
        /\ \A id \in CacheIds(cache) : cache[id].used

\* a later frame lists A and B after B was dropped: A is reused, B is
\* uploaded again, and both have used entries
C20_Witness ==
    /\ frame.recorded
    /\ draw_events >= 2
    /\ BoundIds(frame) = {"A", "B"}
    /\ frame.uploaded = <<"B">>
    /\ cache["A"].used /\ cache["B"].used

\* C21: the cache is keyed by identity only.  In a draw_scene call, an
\* identity that has an entry when the call begins is not uploaded, whatever
\* vertex data the listed objects carry, and every draw bound for it uses
\* the stored buffer; and no step changes the buffer or the contents of an
\* entry that it leaves in the cache.
C21_KeyedByIdentity ==
    [][\A id \in CacheIds(cache) :
           /\ DrawStep =>
                  /\ Count(frame'.uploaded, id) = 0
                  /\ \A k \in DOMAIN frame'.bound :
                         frame'.bound[k].id = id =>
                             frame'.bound[k].buf = cache[id].buf
           /\ cache'[id] # NoEntry =>
                  /\ cache'[id].buf = cache[id].buf
                  /\ cache'[id].len = cache[id].len]_vars

\* a later frame looked up A with 6 vertices while the entry of A, made by
\* an earlier frame, holds 3: no upload, and the entry still holds 3
C21_Witness ==
    /\ draw_events >= 2
    /\ frame.recorded
    /\ \E k \in DOMAIN frame.lookups :
           /\ frame.lookups[k].id = "A"
           /\ frame.lookups[k].vertices = 6
           /\ frame.lookups[k].ok
    /\ Count(frame.uploaded, "A") = 0
    /\ cache["A"] # NoEntry
    /\ cache["A"].len = 3

\* C22: frame-in-flight fence.  After an execute_buffer call of the Vulkan
\* backend that ended in Done, the token in the last-frame fence slot is the
\* fence future of that call's submission ("Submitted"), which the next
\* frame's submission joins; it is not a token that stands for no work.
C22_FenceIsSubmission ==
    (backend_kind = "Vulkan" /\ frame.result = "Done") =>
        last_frame_fence = "Submitted"

\* C23: when a recording has been completed, one draw has been issued for
\* every object of the list, in list order, and the vertex count of each draw
\* is the vertex count of the buffer the cache holds for the object.
C23_DrawUsesBufferLen ==
    frame.recorded =>
        /\ Len(frame.bound) = Len(frame.lookups)
        /\ \A k \in DOMAIN frame.bound :
               /\ frame.bound[k].id = frame.lookups[k].id
               /\ frame.bound[k].vertices_count = cache[frame.bound[k].id].len

\* C24: static objects are uploaded once also with several scenes.  When the
\* Engine holds two or more scenes, none of which changes its object list, no
\* draw_scene call creates a vertex buffer for an identity a buffer was
\* created for before.
C24_StaticUploadedOnce ==
    [][(/\ DrawStep
        /\ Len(scenes) >= 2
        /\ \A i \in DOMAIN scenes : ~scenes[i].regenerates) =>
           \A k \in DOMAIN frame'.uploaded :
               frame'.uploaded[k] \notin uploaded_ids]_vars

\* C25: in a Ready Vulkan backend the last-frame fence slot holds a token
\* whenever execute_buffer is not running, and no execute_buffer call
\* unwinds: each returns Done, Recreate or Fail.
C25_FenceSlotFilled ==
    (backend_kind = "Vulkan" /\ toolkit = "Some") =>
        /\ last_frame_fence # "None"
        /\ frame.result # "Panic"

\* C26: a frame skipped at acquire changes nothing.  An execute_buffer call
\* whose acquire yields Suboptimal or an error makes no lookup in the cache,
\* uploads nothing, records and binds nothing, submits nothing and presents
\* nothing.
C26_SkippedFrameDoesNothing ==
    frame.acquire \in {"Suboptimal", "OutOfDate", "Err"} =>
        /\ frame.lookups = <<>>
        /\ frame.uploaded = <<>>
        /\ frame.bound = <<>>
        /\ ~frame.recorded
        /\ ~frame.submitted
        /\ ~frame.presented

\* C27: when the recording of a Vulkan frame fails, execute_buffer returns
\* Fail without submitting or presenting, the last-frame fence slot is as it
\* was before the call, no two cache entries hold the same buffer, and an
\* object whose upload failed has no entry.
C27_RecordFailure ==
    [][(DrawStep /\ frame'.stage = "record") =>
        /\ frame'.result = "Fail"
        /\ ~frame'.submitted
        /\ ~frame'.presented
        /\ last_frame_fence' = last_frame_fence
        /\ \A i, j \in CacheIds(cache') :
               cache'[i].buf = cache'[j].buf => i = j
        /\ \A k \in DOMAIN frame'.lookups :
               ~frame'.lookups[k].ok => cache'[frame'.lookups[k].id] = NoEntry]_vars

\* the upload for the second object of a list failed after the first object
\* had been uploaded and bound; the fence of the previous frame is in place
C27_Witness ==
    /\ frame.stage = "record"
    /\ Len(frame.lookups) = 2
    /\ frame.lookups[1].ok
    /\ ~frame.lookups[2].ok
    /\ frame.uploaded = <<frame.lookups[1].id>>
    /\ cache[frame.lookups[2].id] = NoEntry
    /\ last_frame_fence = "Now"

\* C28: the backend cell is never borrowed mutably while another borrow of
\* it is live.  Every step in which the initializer or a draw_scene call
\* borrows the cell starts with no live borrow, so no borrow_mut panics, and
\* at most one borrow is live at any time.
C28_NoOverlappingBorrow ==
    [][/\ backend_borrows' <= 1
       /\ (supplier_calls' # supplier_calls \/ DrawStep) =>
              /\ backend_borrows = 0
              /\ frame'.stage # "borrow_mut"]_vars

\* a draw_scene call of a second Draw event holds the borrow, after the
\* initializer and earlier draw_scene calls held and released theirs
C28_Witness ==
    /\ supplier_calls = 1
    /\ init_result = "Ok"
    /\ draw_events >= 2
    /\ last_result # "none"
    /\ frame # NoFrame
    /\ backend_borrows = 1

\* C29: a second call of the window's run fails.  It returns an error, runs
\* no second event loop, dispatches no event and leaves the dispatcher of
\* the first call registered; and an event is only ever in dispatch while a
\* dispatcher is registered.
C29_SecondRunFails ==
    /\ [](/\ rerun_result # "Started"
          /\ rerun_result = "Err" =>
                 /\ pc \in {"exited", "loop_error"}
                 /\ dispatching = "none"
                 /\ event_dispatcher = "Some"
          /\ dispatching # "none" => event_dispatcher = "Some")
    /\ [][rerun_result' # rerun_result =>
             UNCHANGED <<event_loop, event_dispatcher, pc, dispatching,
                         last_event, trace, scenes, start_result>>]_vars

\* run was called again after the first call had returned Ok from a loop
\* that handled Start, Draw and Stop events
C29_Witness ==
    /\ rerun_result = "Err"
    /\ start_result = "Ok"
    /\ draw_events >= 1
    /\ last_event = "OnStop"
    /\ event_dispatcher = "Some"

\* C30: the sweep never removes an entry whose identity was drawn in the
\* current frame.  When a recording has been completed, every buffer bound to
\* one of its draws is still the buffer of the cache entry of that identity.
C30_SweepKeepsBound ==
    frame.recorded =>
        \A k \in DOMAIN frame.bound :
            /\ cache[frame.bound[k].id] # NoEntry
            /\ cache[frame.bound[k].id].buf = frame.bound[k].buf

\* a submitted frame that bound the reused buffer of B while its sweep
\* removed the entry of A, which an earlier frame had listed with B
C30_Witness ==
    /\ frame.recorded
    /\ frame.submitted
    /\ Len(frame.bound) = 1
    /\ frame.bound[1].id = "B"
    /\ frame.uploaded = <<>>
    /\ cache["B"].buf = frame.bound[1].buf
    /\ "A" \in uploaded_ids
    /\ cache["A"] = NoEntry

====
